---- MODULE Spec2Model ----
\* Model of vectorbt/base/combine_fns.py: the apply-and-concatenate executors
\* (sequential, Numba-compiled, Ray-distributed) and the combine adapters.
\*
\* An array is a record [shape, data]: shape is <<rows>> (1-dim) or
\* <<rows, cols>> (2-dim), data is the flat row-major (C order) element list.
\* Python indices are kept 0-based in the state; TLA+ sequences are 1-based.
EXTENDS Integers, Sequences, FiniteSets, TLC

VARIABLES pc, op, n, f, ret, results, outOfOrder

vars == <<pc, op, n, f, ret, results, outOfOrder>>

\* ---------------------------------------------------------------- bounds
MaxN == 3
MaxRows == 2
MaxCols == 2
MaxK == 2
MaxVal == 1

\* Fill values an uninitialised np.empty buffer may show.
GarbageVals == {0, -1}

\* ---------------------------------------------------------------- helpers
Min(a, b) == IF a < b THEN a ELSE b

RECURSIVE SumSeq(_)
SumSeq(s) == IF s = <<>> THEN 0 ELSE Head(s) + SumSeq(Tail(s))

Ok(v) == [ok |-> TRUE, val |-> v, exc |-> ""]
Raise(e) == [ok |-> FALSE, val |-> <<>>, exc |-> e]

\* What a call hands back to its caller: a return value or an exception, with
\* the log of indices the apply function was invoked with and, for the compiled
\* executors, the column slices requested per output position.
Returned(v, calls, ranges) ==
    [status |-> "returned", value |-> v, exc |-> "", calls |-> calls, ranges |-> ranges]
Raised(e, calls, ranges) ==
    [status |-> "raised", value |-> <<>>, exc |-> e, calls |-> calls, ranges |-> ranges]
NoRet == [status |-> "none", value |-> <<>>, exc |-> "", calls |-> <<>>, ranges |-> <<>>]

\* ---------------------------------------------------------------- arrays
ndim(a) == Len(a.shape)
NRows(a) == a.shape[1]
\* Element (r, c), 1-based, of a 2-dim array.
Elem(a, r, c) == a.data[(r - 1) * a.shape[2] + c]
RowOf(a, r) == SubSeq(a.data, (r - 1) * a.shape[2] + 1, r * a.shape[2])

\* reshape_fns.to_2d: a 1-dim array becomes a single-column 2-dim array.
to_2d(a) ==
    IF ndim(a) = 2 THEN a
    ELSE [shape |-> <<a.shape[1], 1>>, data |-> a.data]

\* to_2d_one_nb: np.expand_dims(a, axis=1) unless a.ndim > 1.
to_2d_one_nb(a) ==
    IF ndim(a) > 1 THEN a
    ELSE [shape |-> <<a.shape[1], 1>>, data |-> a.data]

RECURSIVE to_2d_multiple_nb(_)
to_2d_multiple_nb(a) ==
    IF a = <<>> THEN <<>>
    ELSE <<to_2d_one_nb(Head(a))>> \o to_2d_multiple_nb(Tail(a))

RECURSIVE map_to_2d(_)
map_to_2d(a) ==
    IF a = <<>> THEN <<>> ELSE <<to_2d(Head(a))>> \o map_to_2d(Tail(a))

\* np.column_stack turns every array of fewer than 2 dims into a column first.
AsColumn(a) ==
    IF ndim(a) < 2 THEN [shape |-> <<a.shape[1], 1>>, data |-> a.data] ELSE a

RECURSIVE HStackRow(_, _)
HStackRow(arrs, r) ==
    IF arrs = <<>> THEN <<>>
    ELSE RowOf(AsColumn(Head(arrs)), r) \o HStackRow(Tail(arrs), r)

RECURSIVE HStackRows(_, _, _)
HStackRows(arrs, r, rows) ==
    IF r > rows THEN <<>>
    ELSE HStackRow(arrs, r) \o HStackRows(arrs, r + 1, rows)

RECURSIVE Widths(_)
Widths(arrs) ==
    IF arrs = <<>> THEN <<>>
    ELSE <<AsColumn(Head(arrs)).shape[2]>> \o Widths(Tail(arrs))

Reverse(s) == [p \in 1..Len(s) |-> s[Len(s) + 1 - p]]

\* A column_stack that stacks right-to-left.
column_stack_reversed(arrs) ==
    IF Len(arrs) = 0 THEN Raise("ValueError")
    ELSE IF \E p \in 1..Len(arrs) : NRows(arrs[p]) # NRows(arrs[1])
         THEN Raise("ValueError")
         ELSE Ok([shape |-> <<NRows(arrs[1]), SumSeq(Widths(arrs))>>,
                  data |-> HStackRows(Reverse(arrs), 1, NRows(arrs[1]))])

\* np.column_stack: fails on an empty list and on differing row counts,
\* otherwise concatenates along axis 1 in list order.
column_stack(arrs) ==
    IF Len(arrs) = 0 THEN Raise("ValueError")
    ELSE IF \E p \in 1..Len(arrs) : NRows(arrs[p]) # NRows(arrs[1])
         THEN Raise("ValueError")
         ELSE Ok([shape |-> <<NRows(arrs[1]), SumSeq(Widths(arrs))>>,
                  data |-> HStackRows(arrs, 1, NRows(arrs[1]))])

\* np.empty((rows, cols)): contents are whatever the memory held.
np_empty(rows, cols, g) ==
    [shape |-> <<rows, cols>>, data |-> [p \in 1..(rows * cols) |-> g]]

\* output[:, lo:hi] = src.  The slice is clipped to the buffer; src is
\* broadcast to the slice (an axis of length 1 stretches), any other
\* difference in shape is a ValueError.
SetSlice(output, lo, hi, src) ==
    LET rows == output.shape[1]
        width == output.shape[2]
        clo == Min(lo, width)
        chi == Min(hi, width)
        dw == IF chi > clo THEN chi - clo ELSE 0
        sr == src.shape[1]
        sc == src.shape[2]
    IN  IF (sr # rows /\ sr # 1) \/ (sc # dw /\ sc # 1)
        THEN Raise("ValueError")
        ELSE Ok([shape |-> output.shape,
                 data |-> [p \in 1..(rows * width) |->
                    LET r == ((p - 1) \div width) + 1
                        c == ((p - 1) % width) + 1
                    IN  IF c > clo /\ c <= clo + dw
                        THEN Elem(src, IF sr = 1 THEN 1 ELSE r,
                                       IF sc = 1 THEN 1 ELSE c - clo)
                        ELSE output.data[p]]])

\* ---------------------------------------------------------------- apply functions
\* The caller-supplied functions.  An apply function of the generated family
\* returns, at index i, an array (arity "one") or a tuple of d.k arrays (arity
\* "multi") of shape d.shape, where d is fn.alt for the indices in fn.useAlt
\* and fn.base elsewhere; every element carries a tag naming its iteration,
\* tuple position and place, so that no two elements of a call are equal.
Shapes ==
    {<<r>> : r \in 1..MaxRows} \cup {<<r, c>> : r \in 1..MaxRows, c \in 1..MaxCols}

Size(shape) == IF Len(shape) = 1 THEN shape[1] ELSE shape[1] * shape[2]

TaggedArray(i, j, shape) ==
    [shape |-> shape, data |-> [p \in 1..Size(shape) |-> 100 * (i + 1) + 10 * j + p]]

Descs(K) == [k : K, shape : Shapes]

GenFuncs(count, arity, K) ==
    {[kind |-> "gen", arity |-> arity, base |-> b, alt |-> a, useAlt |-> u] :
        b \in Descs(K), a \in Descs(K), u \in SUBSET (0..(count - 1))}

\* One representative per function: alt is named only when it is used.
Funcs(count, arity, K) ==
    {fn \in GenFuncs(count, arity, K) :
        IF fn.useAlt = {} THEN fn.alt = fn.base ELSE fn.alt # fn.base}

\* A compiled apply function has one return type: the number of dimensions
\* of its result is the same at every index.
NbFuncs(count, arity, K) ==
    {fn \in Funcs(count, arity, K) : Len(fn.alt.shape) = Len(fn.base.shape)}

\* combine_func as callers pass it: lambda a, b: 2 * a + b, on scalars ...
combine_func(a, b) == 2 * a + b
\* ... and on an array a and a scalar b (NumPy broadcasts b over a).
combine_func_nd(a, b) ==
    [shape |-> a.shape, data |-> [p \in 1..Len(a.data) |-> combine_func(a.data[p], b)]]

\* A select_and_combine that indexes others from its end.
select_and_combine_from_end(i, obj, others) ==
    combine_func_nd(obj, others[Len(others) - i])

select_and_combine(i, obj, others) == combine_func_nd(obj, others[i + 1])

apply_func(fn, i) ==
    IF fn.kind = "select_and_combine"
    THEN select_and_combine(i, fn.obj, fn.others)
    ELSE LET d == IF i \in fn.useAlt THEN fn.alt ELSE fn.base
         IN  IF fn.arity = "one" THEN TaggedArray(i, 1, d.shape)
             ELSE [j \in 1..d.k |-> TaggedArray(i, j, d.shape)]

\* ---------------------------------------------------------------- discard executors
\* Every executor is a synchronous call on the caller's thread: an operator
\* computes its whole outcome, the loop as a recursion over i.  The tqdm
\* progress bar (disabled by default) and the pass-through *args/**kwargs do
\* not touch the outcome and are left out.
\* A discard loop that stops one iteration early.
RECURSIVE none_loop_short(_, _, _, _)
none_loop_short(i, count, fn, calls) ==
    IF i >= count - 1 THEN calls
    ELSE none_loop_short(i + 1, count, fn, Append(calls, i))

RECURSIVE none_loop(_, _, _, _)
none_loop(i, count, fn, calls) ==
    IF i >= count THEN calls
    ELSE none_loop(i + 1, count, fn, Append(calls, i))

apply_and_concat_none(count, fn) ==
    Returned(<<>>, none_loop(0, count, fn, <<>>), <<>>)

RECURSIVE none_nb_loop(_, _, _, _)
none_nb_loop(i, count, fn, calls) ==
    IF i >= count THEN calls
    ELSE none_nb_loop(i + 1, count, fn, Append(calls, i))

apply_and_concat_none_nb(count, fn) ==
    Returned(<<>>, none_nb_loop(0, count, fn, <<>>), <<>>)

\* ---------------------------------------------------------------- single-stack executors
RECURSIVE one_loop(_, _, _, _)
one_loop(i, count, fn, acc) ==
    IF i >= count THEN acc
    ELSE one_loop(i + 1, count, fn,
                  [outputs |-> Append(acc.outputs, to_2d(apply_func(fn, i))),
                   calls |-> Append(acc.calls, i)])

apply_and_concat_one(count, fn) ==
    LET acc == one_loop(0, count, fn, [outputs |-> <<>>, calls |-> <<>>])
        st == column_stack(acc.outputs)
    IN  IF st.ok THEN Returned(st.val, acc.calls, <<>>)
        ELSE Raised(st.exc, acc.calls, <<>>)

RECURSIVE one_nb_loop(_, _, _, _, _)
one_nb_loop(i, count, fn, output_0, acc) ==
    IF i >= count \/ acc.exc # "" THEN acc
    ELSE LET outputs_i == IF i = 0 THEN output_0
                          ELSE to_2d_one_nb(apply_func(fn, i))
             lo == i * outputs_i.shape[2]
             hi == (i + 1) * outputs_i.shape[2]
             w == SetSlice(acc.output, lo, hi, outputs_i)
         IN  one_nb_loop(i + 1, count, fn, output_0,
                 [output |-> IF w.ok THEN w.val ELSE acc.output,
                  calls |-> IF i = 0 THEN acc.calls ELSE Append(acc.calls, i),
                  ranges |-> Append(acc.ranges, <<lo, hi>>),
                  exc |-> w.exc])

apply_and_concat_one_nb(count, fn, g) ==
    LET output_0 == to_2d_one_nb(apply_func(fn, 0))
        output == np_empty(output_0.shape[1], count * output_0.shape[2], g)
        acc == one_nb_loop(0, count, fn, output_0,
                   [output |-> output, calls |-> <<0>>, ranges |-> <<>>, exc |-> ""])
    IN  IF acc.exc = "" THEN Returned(acc.output, acc.calls, <<acc.ranges>>)
        ELSE Raised(acc.exc, acc.calls, <<acc.ranges>>)

\* ---------------------------------------------------------------- multi-stack executors
RECURSIVE MinLen(_)
MinLen(tuples) ==
    IF Len(tuples) = 1 THEN Len(Head(tuples))
    ELSE Min(Len(Head(tuples)), MinLen(Tail(tuples)))

\* zip(*outputs): one list per tuple position, as many positions as the
\* shortest tuple has; no positions at all for an empty list.
zip_star(outputs) ==
    IF outputs = <<>> THEN <<>>
    ELSE [j \in 1..MinLen(outputs) |-> [p \in 1..Len(outputs) |-> outputs[p][j]]]

\* list(map(np.column_stack, lists)): the first failing stack raises.
RECURSIVE map_column_stack(_)
map_column_stack(lists) ==
    IF lists = <<>> THEN Ok(<<>>)
    ELSE LET st == column_stack(Head(lists))
             rest == map_column_stack(Tail(lists))
         IN  IF ~st.ok THEN Raise(st.exc)
             ELSE IF ~rest.ok THEN rest
             ELSE Ok(<<st.val>> \o rest.val)

RECURSIVE multiple_loop(_, _, _, _)
multiple_loop(i, count, fn, acc) ==
    IF i >= count THEN acc
    ELSE multiple_loop(i + 1, count, fn,
                  [outputs |-> Append(acc.outputs, map_to_2d(apply_func(fn, i))),
                   calls |-> Append(acc.calls, i)])

apply_and_concat_multiple(count, fn) ==
    LET acc == multiple_loop(0, count, fn, [outputs |-> <<>>, calls |-> <<>>])
        st == map_column_stack(zip_star(acc.outputs))
    IN  IF st.ok THEN Returned(st.val, acc.calls, <<>>)
        ELSE Raised(st.exc, acc.calls, <<>>)

\* for j in range(len(outputs_i)): outputs[j][:, lo:hi] = outputs_i[j]
RECURSIVE multiple_nb_inner(_, _, _, _)
multiple_nb_inner(j, i, outputs_i, acc) ==
    IF j >= Len(outputs_i) \/ acc.exc # "" THEN acc
    ELSE IF j >= Len(acc.outputs) THEN [acc EXCEPT !.exc = "IndexError"]
    ELSE LET lo == i * outputs_i[j + 1].shape[2]
             hi == (i + 1) * outputs_i[j + 1].shape[2]
             w == SetSlice(acc.outputs[j + 1], lo, hi, outputs_i[j + 1])
         IN  multiple_nb_inner(j + 1, i, outputs_i,
                 [acc EXCEPT !.outputs[j + 1] = IF w.ok THEN w.val ELSE @,
                             !.ranges[j + 1] = Append(@, <<lo, hi>>),
                             !.exc = w.exc])

RECURSIVE multiple_nb_loop(_, _, _, _, _)
multiple_nb_loop(i, count, fn, outputs_0, acc) ==
    IF i >= count \/ acc.exc # "" THEN acc
    ELSE LET outputs_i == IF i = 0 THEN outputs_0
                          ELSE to_2d_multiple_nb(apply_func(fn, i))
             called == [acc EXCEPT !.calls = IF i = 0 THEN @ ELSE Append(@, i)]
         IN  multiple_nb_loop(i + 1, count, fn, outputs_0,
                              multiple_nb_inner(0, i, outputs_i, called))

apply_and_concat_multiple_nb(count, fn, g) ==
    LET outputs_0 == to_2d_multiple_nb(apply_func(fn, 0))
        outputs == [j \in 1..Len(outputs_0) |->
                       np_empty(outputs_0[j].shape[1], count * outputs_0[j].shape[2], g)]
        acc == multiple_nb_loop(0, count, fn, outputs_0,
                   [outputs |-> outputs, calls |-> <<0>>,
                    ranges |-> [j \in 1..Len(outputs_0) |-> <<>>], exc |-> ""])
    IN  IF acc.exc = "" THEN Returned(acc.outputs, acc.calls, acc.ranges)
        ELSE Raised(acc.exc, acc.calls, acc.ranges)

\* ---------------------------------------------------------------- combine adapters
SelectAndCombine(obj, others) ==
    [kind |-> "select_and_combine", obj |-> obj, others |-> others]

combine_and_concat(obj, others) ==
    apply_and_concat_one(Len(others), SelectAndCombine(obj, others))

\* A fold that passes the operands to combine_func in the other order.
RECURSIVE combine_multiple_loop_swapped(_, _, _)
combine_multiple_loop_swapped(i, objs, acc) ==
    IF i >= Len(objs) THEN acc
    ELSE combine_multiple_loop_swapped(i + 1, objs,
             [result |-> combine_func(objs[i + 1], acc.result),
              calls |-> Append(acc.calls, i)])

RECURSIVE combine_multiple_loop(_, _, _)
combine_multiple_loop(i, objs, acc) ==
    IF i >= Len(objs) THEN acc
    ELSE combine_multiple_loop(i + 1, objs,
             [result |-> combine_func(acc.result, objs[i + 1]),
              calls |-> Append(acc.calls, i)])

\* ret.calls logs, per call of combine_func, the index of its right operand.
combine_multiple(objs) ==
    IF Len(objs) = 0 THEN Raised("IndexError", <<>>, <<>>)
    ELSE LET acc == combine_multiple_loop(1, objs, [result |-> objs[1], calls |-> <<>>])
         IN  Returned(acc.result, acc.calls, <<>>)

combine_multiple_nb(objs) ==
    IF Len(objs) = 0 THEN Raised("IndexError", <<>>, <<>>)
    ELSE LET acc == combine_multiple_loop(1, objs, [result |-> objs[1], calls |-> <<>>])
         IN  Returned(acc.result, acc.calls, <<>>)

\* ---------------------------------------------------------------- distributed executors
\* utils.parallel.run_ntimes_using_ray: one remote task per index, and the
\* list of their results in index order once all of them have completed.
run_ntimes_using_ray(count, done) == [p \in 1..count |-> done[p - 1]]

\* A distributed single-stack that stacks the results last-to-first.
apply_and_concat_one_ray_reversed(res) ==
    LET st == column_stack(Reverse(map_to_2d(res)))
    IN  IF st.ok THEN Returned(st.val, <<>>, <<>>) ELSE Raised(st.exc, <<>>, <<>>)

apply_and_concat_one_ray(res) ==
    LET st == column_stack(map_to_2d(res))
    IN  IF st.ok THEN Returned(st.val, <<>>, <<>>) ELSE Raised(st.exc, <<>>, <<>>)

apply_and_concat_multiple_ray(res) ==
    LET st == map_column_stack(zip_star(res))
    IN  IF st.ok THEN Returned(st.val, <<>>, <<>>) ELSE Raised(st.exc, <<>>, <<>>)

\* ---------------------------------------------------------------- state machine
\* pc: "idle" before the call, "ray" while remote tasks are in flight, "done"
\* once the call has returned or raised.  op names the function called, n and
\* f are its arguments, ret is what it handed back.  results maps the index of
\* every completed remote task to its result; outOfOrder records that some
\* task completed while a task of lower index was still running.
NoResults == [x \in {} |-> 0]

Counts == 0..MaxN

Vectors == UNION {[shape : {<<r>>}, data : [1..r -> 0..MaxVal]] : r \in 1..MaxRows}

Scalars(len) == [1..len -> 0..MaxVal]

Init ==
    /\ pc = "idle"
    /\ op = "none"
    /\ n = 0
    /\ f = [kind |-> "none"]
    /\ ret = NoRet
    /\ results = NoResults
    /\ outOfOrder = FALSE

Finish(name, count, fn, r) ==
    /\ pc' = "done"
    /\ op' = name
    /\ n' = count
    /\ f' = fn
    /\ ret' = r
    /\ UNCHANGED <<results, outOfOrder>>

Call_apply_and_concat_none ==
    /\ pc = "idle"
    /\ \E count \in Counts : \E fn \in Funcs(count, "one", {1}) :
        Finish("apply_and_concat_none", count, fn, apply_and_concat_none(count, fn))

Call_apply_and_concat_none_nb ==
    /\ pc = "idle"
    /\ \E count \in Counts : \E fn \in NbFuncs(count, "one", {1}) :
        Finish("apply_and_concat_none_nb", count, fn, apply_and_concat_none_nb(count, fn))

Call_apply_and_concat_one ==
    /\ pc = "idle"
    /\ \E count \in Counts : \E fn \in Funcs(count, "one", {1}) :
        Finish("apply_and_concat_one", count, fn, apply_and_concat_one(count, fn))

Call_apply_and_concat_one_nb ==
    /\ pc = "idle"
    /\ \E count \in Counts : \E fn \in NbFuncs(count, "one", {1}) : \E g \in GarbageVals :
        Finish("apply_and_concat_one_nb", count, fn, apply_and_concat_one_nb(count, fn, g))

Call_apply_and_concat_multiple ==
    /\ pc = "idle"
    /\ \E count \in Counts : \E fn \in Funcs(count, "multi", 1..MaxK) :
        Finish("apply_and_concat_multiple", count, fn, apply_and_concat_multiple(count, fn))

Call_apply_and_concat_multiple_nb ==
    /\ pc = "idle"
    /\ \E count \in Counts : \E fn \in NbFuncs(count, "multi", 1..MaxK) : \E g \in GarbageVals :
        Finish("apply_and_concat_multiple_nb", count, fn,
               apply_and_concat_multiple_nb(count, fn, g))

Call_combine_and_concat ==
    /\ pc = "idle"
    /\ \E obj \in Vectors : \E count \in Counts : \E others \in Scalars(count) :
        Finish("combine_and_concat", count, SelectAndCombine(obj, others),
               combine_and_concat(obj, others))

Call_combine_multiple ==
    /\ pc = "idle"
    /\ \E count \in Counts : \E objs \in Scalars(count) :
        Finish("combine_multiple", count, [kind |-> "fold", objs |-> objs],
               combine_multiple(objs))

Call_combine_multiple_nb ==
    /\ pc = "idle"
    /\ \E count \in Counts : \E objs \in Scalars(count) :
        Finish("combine_multiple_nb", count, [kind |-> "fold", objs |-> objs],
               combine_multiple_nb(objs))

\* run_ntimes_using_ray submits the n remote tasks.
Submit(name, count, fn) ==
    /\ pc' = "ray"
    /\ op' = name
    /\ n' = count
    /\ f' = fn
    /\ UNCHANGED <<ret, results, outOfOrder>>

Call_apply_and_concat_one_ray ==
    /\ pc = "idle"
    /\ \E count \in Counts : \E fn \in Funcs(count, "one", {1}) :
        Submit("apply_and_concat_one_ray", count, fn)

Call_apply_and_concat_multiple_ray ==
    /\ pc = "idle"
    /\ \E count \in Counts : \E fn \in Funcs(count, "multi", 1..MaxK) :
        Submit("apply_and_concat_multiple_ray", count, fn)

\* A remote task completes; the runtime picks which.
RayTaskComplete ==
    /\ pc = "ray"
    /\ \E i \in (0..(n - 1)) \ DOMAIN results :
        /\ results' = (i :> apply_func(f, i)) @@ results
        /\ outOfOrder' = (outOfOrder \/ \E m \in 0..(i - 1) : m \notin DOMAIN results)
    /\ UNCHANGED <<pc, op, n, f, ret>>

Return_apply_and_concat_one_ray ==
    /\ pc = "ray"
    /\ op = "apply_and_concat_one_ray"
    /\ DOMAIN results = 0..(n - 1)
    /\ pc' = "done"
    /\ ret' = apply_and_concat_one_ray(run_ntimes_using_ray(n, results))
    /\ UNCHANGED <<op, n, f, results, outOfOrder>>

Return_apply_and_concat_multiple_ray ==
    /\ pc = "ray"
    /\ op = "apply_and_concat_multiple_ray"
    /\ DOMAIN results = 0..(n - 1)
    /\ pc' = "done"
    /\ ret' = apply_and_concat_multiple_ray(run_ntimes_using_ray(n, results))
    /\ UNCHANGED <<op, n, f, results, outOfOrder>>

Next ==
    \/ Call_apply_and_concat_none
    \/ Call_apply_and_concat_none_nb
    \/ Call_apply_and_concat_one
    \/ Call_apply_and_concat_one_nb
    \/ Call_apply_and_concat_multiple
    \/ Call_apply_and_concat_multiple_nb
    \/ Call_combine_and_concat
    \/ Call_combine_multiple
    \/ Call_combine_multiple_nb
    \/ Call_apply_and_concat_one_ray
    \/ Call_apply_and_concat_multiple_ray
    \/ RayTaskComplete
    \/ Return_apply_and_concat_one_ray
    \/ Return_apply_and_concat_multiple_ray

Spec == Init /\ [][Next]_vars

\* ---------------------------------------------------------------- properties
\* What the properties say about arrays is stated on the raw results of the
\* apply function, without the model's stacking operators.
Idx == 0..(n - 1)
RowsOf(a) == a.shape[1]
ColsOf(a) == IF Len(a.shape) = 1 THEN 1 ELSE a.shape[2]
At(a, r, c) == IF Len(a.shape) = 1 THEN a.data[r] ELSE a.data[(r - 1) * a.shape[2] + c]

RECURSIVE Offset(_, _)
Offset(outs, p) == IF p = 1 THEN 0 ELSE Offset(outs, p - 1) + ColsOf(outs[p - 1])
TotalCols(outs) == Offset(outs, Len(outs) + 1)

\* v is the left-to-right concatenation of outs along the column axis.
IsConcatOf(v, outs) ==
    LET rows == RowsOf(outs[1])
        width == TotalCols(outs)
    IN  /\ v.shape = <<rows, width>>
        /\ Len(v.data) = rows * width
        /\ \A p \in 1..Len(outs) : \A r \in 1..rows : \A c \in 1..ColsOf(outs[p]) :
              v.data[(r - 1) * width + Offset(outs, p) + c] = At(outs[p], r, c)

\* The per-iteration results of a single-stack call, and of position j of a
\* multi-stack call, in index order.
OneOutputs == [p \in 1..n |-> apply_func(f, p - 1)]
PosOutputs(j) == [p \in 1..n |-> apply_func(f, p - 1)[j]]
Arity0 == Len(apply_func(f, 0))

SharedRowsOne == \A i \in Idx : RowsOf(apply_func(f, i)) = RowsOf(apply_func(f, 0))
SameArity == \A i \in Idx : Len(apply_func(f, i)) = Arity0
SharedRowsMulti ==
    \A i \in Idx : \A j \in 1..Arity0 :
        RowsOf(apply_func(f, i)[j]) = RowsOf(apply_func(f, 0)[j])

Done(name) == pc = "done" /\ op = name

\* C1: for n >= 1 and outputs sharing a row count per position, the sequential
\* executors return, per output position, the concatenation of the iterations'
\* outputs in ascending index order (column count = sum of the iterations'
\* column counts); 3 iterations of 2-tuples of 1-column buffers give 2 buffers
\* of 3 columns each.
C1_SequentialConcatInOrder ==
    /\ (Done("apply_and_concat_one") /\ n >= 1 /\ SharedRowsOne)
          => /\ ret.status = "returned"
             /\ IsConcatOf(ret.value, OneOutputs)
    /\ (Done("apply_and_concat_multiple") /\ n >= 1 /\ SameArity /\ SharedRowsMulti)
          => /\ ret.status = "returned"
             /\ Len(ret.value) = Arity0
             /\ \A j \in 1..Arity0 : IsConcatOf(ret.value[j], PosOutputs(j))
             /\ (n = 3 /\ Arity0 = 2 /\ \A i \in Idx : ColsOf(apply_func(f, i)[1]) = 1)
                   => \A j \in 1..2 : ret.value[j].shape[2] = 3

C1_Witness ==
    /\ Done("apply_and_concat_multiple")
    /\ n = 3
    /\ \A i \in Idx : Len(apply_func(f, i)) = 2 /\ ColsOf(apply_func(f, i)[1]) = 1
    /\ ret.status = "returned"
    /\ Len(ret.value) = 2
    /\ \A j \in 1..2 : ret.value[j].shape[2] = 3

\* C2: for n >= 1 and outputs of equal row count (column counts may differ),
\* apply_and_concat_one_nb returns the buffer apply_and_concat_one returns.
C2_CompiledEqualsSequential ==
    (Done("apply_and_concat_one_nb") /\ n >= 1 /\ SharedRowsOne)
        => LET seq == apply_and_concat_one(n, f)
           IN  /\ ret.status = seq.status
               /\ ret.status = "returned" => ret.value = seq.value

C4_CombineAndConcatColumns ==
    (Done("combine_and_concat") /\ n >= 1)
        => /\ ret.status = "returned"
           /\ ret.value.shape = <<Len(f.obj.data), Len(f.others)>>
           /\ \A i \in 0..(Len(f.others) - 1) : \A r \in 1..Len(f.obj.data) :
                 ret.value.data[(r - 1) * Len(f.others) + i + 1]
                     = combine_func(f.obj.data[r], f.others[i + 1])

C4_Witness ==
    /\ Done("combine_and_concat")
    /\ n >= 2
    /\ f.others[1] # f.others[2]
    /\ ret.status = "returned"
    /\ ret.value.shape[2] = n

RECURSIVE LeftFold(_)
LeftFold(objs) ==
    IF Len(objs) = 1 THEN objs[1]
    ELSE combine_func(LeftFold(SubSeq(objs, 1, Len(objs) - 1)), objs[Len(objs)])

\* C5: for non-empty objs, combine_multiple is the strict left fold from
\* objs[0], calling combine_func exactly len(objs) - 1 times with objs[1],
\* objs[2], ... in ascending order: [a, b, c] gives f(f(a, b), c) and [a]
\* gives a with no call.
C5_CombineMultipleLeftFold ==
    ((Done("combine_multiple") \/ Done("combine_multiple_nb")) /\ Len(f.objs) >= 1)
        => /\ ret.status = "returned"
           /\ ret.value = LeftFold(f.objs)
           /\ ret.calls = [p \in 1..(Len(f.objs) - 1) |-> p]
           /\ Len(f.objs) = 3
                 => ret.value = combine_func(combine_func(f.objs[1], f.objs[2]), f.objs[3])
           /\ Len(f.objs) = 1 => (ret.value = f.objs[1] /\ ret.calls = <<>>)

\* [a, b, c] on which the left fold and the right fold differ.
C5_Witness ==
    /\ Done("combine_multiple")
    /\ Len(f.objs) = 3
    /\ ret.status = "returned"
    /\ Len(ret.calls) = 2
    /\ ret.value # combine_func(f.objs[1], combine_func(f.objs[2], f.objs[3]))

\* C6: for n >= 0 the discard executors invoke the function exactly n times,
\* once per index 0..n-1 in ascending order, and return nothing.
C6_DiscardCallsEachIndexOnce ==
    (Done("apply_and_concat_none") \/ Done("apply_and_concat_none_nb"))
        => /\ ret.status = "returned"
           /\ ret.value = <<>>
           /\ ret.calls = [p \in 1..n |-> p - 1]

C6_Witness ==
    /\ Done("apply_and_concat_none")
    /\ n >= 2
    /\ ret.status = "returned"
    /\ Len(ret.calls) = n

StackOps ==
    {"apply_and_concat_one", "apply_and_concat_multiple",
     "apply_and_concat_one_nb", "apply_and_concat_multiple_nb"}

\* C7: with n = 0 every single-stack and multi-stack executor fails, without
\* invoking the apply function.
C7_EmptyInputFails ==
    (pc = "done" /\ op \in StackOps /\ n = 0)
        => ret.status = "raised" /\ ret.calls = <<>>

\* C8: a multi-stack call with n >= 2 in which some iteration i > 0 returns a
\* tuple of another length than iteration 0 fails and returns no output.
C8_ArityMismatchFails ==
    (/\ Done("apply_and_concat_multiple") \/ Done("apply_and_concat_multiple_nb")
     /\ n >= 2
     /\ \E i \in Idx : Len(apply_func(f, i)) # Arity0)
        => ret.status = "raised"

\* C9: a compiled single-stack call with n >= 2 in which some iteration i > 0
\* returns another row count than iteration 0 (a single row included) fails
\* with a shape-mismatch error and returns no buffer.
C9_RowMismatchFails ==
    (/\ Done("apply_and_concat_one_nb")
     /\ n >= 2
     /\ \E i \in Idx : RowsOf(apply_func(f, i)) # RowsOf(apply_func(f, 0)))
        => ret.status = "raised" /\ ret.exc = "ValueError"

\* The column slices rg requested of a buffer of the given width partition it.
Partitions(rg, width) ==
    /\ Len(rg) = n
    /\ \A p \in 1..Len(rg) : 0 <= rg[p][1] /\ rg[p][1] <= rg[p][2] /\ rg[p][2] <= width
    /\ \A p \in 1..Len(rg) : \A q \in 1..Len(rg) :
          p # q => (rg[p][2] <= rg[q][1] \/ rg[q][2] <= rg[p][1])
    /\ \A c \in 0..(width - 1) :
          Cardinality({p \in 1..Len(rg) : rg[p][1] <= c /\ c < rg[p][2]}) = 1

\* C10: in the compiled executors, for n >= 1 and outputs of equal row count
\* whose column counts may vary, the column ranges written by the n iterations
\* partition the pre-allocated buffer of every output position.
C10_WritesPartitionBuffer ==
    /\ (Done("apply_and_concat_one_nb") /\ n >= 1 /\ SharedRowsOne)
          => Partitions(ret.ranges[1], n * ColsOf(apply_func(f, 0)))
    /\ (Done("apply_and_concat_multiple_nb") /\ n >= 1 /\ SameArity /\ SharedRowsMulti)
          => \A j \in 1..Arity0 :
                Partitions(ret.ranges[j], n * ColsOf(apply_func(f, 0)[j]))

====
